---- MODULE Spec2Model ----
(***************************************************************************)
(* Model of the geometry container: Point (point.py), Vector (vector.py)   *)
(* and Container (container.py).  Python objects are records carrying a    *)
(* "type" field; an operation returns a record whose "out" field is "ok"   *)
(* or the name of the exception it raises.                                 *)
(*                                                                         *)
(* container.py decorates append/extend/insert with @override without      *)
(* importing it; the methods are modelled as written, the decorator being  *)
(* read as typing.override (the identity).                                 *)
(***************************************************************************)
EXTENDS Integers, Sequences, FiniteSets, TLC

\* ---------------------------------------------------------------- bounds
MaxArgs == 2      \* arguments of one Container(...) / extend(...) call
MaxLen == 3       \* length up to which append/extend/insert are explored

\* ------------------------------------------------------- results of calls
Ok(v) == [out |-> "ok", value |-> v]

Raise(e) == [out |-> e]

\* ------------------------------------------------------------ Python data
\* the class object Vector, as bound to the first parameter of a classmethod
ClassVector == [type |-> "type", name |-> "Vector"]

PyInt(n) == [type |-> "int", ival |-> n]

PyStr(s) == [type |-> "str", sval |-> s]

\* isinstance(obj, (Vector, Point)); Vector is a subclass of Point
IsPoint(obj) == obj.type \in {"Point", "Vector"}

IsVector(obj) == obj.type = "Vector"

IsNumber(obj) == obj.type \in {"int", "float"}

\* Point.__init__ on numeric coordinates: the object's attribute dictionary
PointVal(x, y, z) == [type |-> "Point", x |-> x, y |-> y, z |-> z]

\* a Vector by value: its coordinate triple and the values of its two Points
VectorVal(x, y, z, sp, ep) ==
    [type |-> "Vector", x |-> x, y |-> y, z |-> z,
     start_point |-> sp, end_point |-> ep]

\* Point.__eq__
Point_eq(self, other) ==
    IF ~IsPoint(other) THEN FALSE
    ELSE self.x = other.x /\ self.y = other.y /\ self.z = other.z

\* Vector.__eq__
Vector_eq(self, other) ==
    IF ~IsVector(other) THEN FALSE
    ELSE /\ Point_eq(self.start_point, other.start_point)
         /\ Point_eq(self.end_point, other.end_point)

\* a == b between container elements: the method of the left operand, the
\* right one first when its class is a subclass overriding __eq__
PyEq(a, b) ==
    IF IsVector(a) THEN Vector_eq(a, b)
    ELSE IF IsVector(b) THEN Vector_eq(b, a)
    ELSE Point_eq(a, b)

\* list.__eq__: same length and equal element by element
ListEq(s, t) ==
    /\ Len(s) = Len(t)
    /\ \A i \in 1..Len(s) : PyEq(s[i], t[i])

\* ------------------------------------------------------------------ JSON
\* json.dumps: a str object holding the serialisation of the mapping
json_dumps(d) == [type |-> "str", json |-> d]

\* json.loads: TypeError unless given a str; else the parsed mapping
json_loads(s) ==
    IF s.type # "str" THEN Raise("TypeError")
    ELSE IF "json" \notin DOMAIN s THEN Raise("ValueError")
    ELSE Ok(s.json)

\* truth value of an optional argument: None and "" are false, a class,
\* a non-empty str and a non-empty dict are true
Truthy(obj) == obj.type \notin {"NoneType", "emptydict", "emptystr"}

None == [type |-> "NoneType"]

\* Point.to_json
Point_to_json(self, to_dict) ==
    LET json_dict == [type |-> "Point", x |-> self.x, y |-> self.y, z |-> self.z]
    IN IF to_dict THEN json_dict ELSE json_dumps(json_dict)

\* Point.from_json(json_string, json_dict), cls being Point
Point_from_json(json_string, json_dict) ==
    LET loaded == IF Truthy(json_string) THEN json_loads(json_string)
                  ELSE Ok(json_dict)
    IN IF loaded.out # "ok" THEN loaded
       ELSE IF ~Truthy(loaded.value) THEN Raise("ValueError")
       ELSE IF ~({"x", "y", "z"} \subseteq DOMAIN loaded.value)
            THEN Raise("ValueError")
       ELSE Ok(PointVal(loaded.value.x, loaded.value.y, loaded.value.z))

\* Vector.to_json
Vector_to_json(self, to_dict) ==
    LET json_dict == [type |-> "Vector",
                      start_point |-> Point_to_json(self.start_point, TRUE),
                      end_point |-> Point_to_json(self.end_point, TRUE),
                      x |-> self.x, y |-> self.y, z |-> self.z]
    IN IF to_dict THEN json_dict ELSE json_dumps(json_dict)

\* Vector.from_json as declared: a classmethod whose parameter list has no
\* cls, so the class object arrives in json_string.  `bound` is what the
\* call binds to json_string, json_dict the other argument.
Vector_from_json(bound, json_dict) ==
    LET loaded == IF Truthy(bound) THEN json_loads(bound) ELSE Ok(json_dict)
    IN IF loaded.out # "ok" THEN loaded
       ELSE IF ~Truthy(loaded.value) THEN Raise("ValueError")
       ELSE IF ~({"start_point", "end_point"} \subseteq DOMAIN loaded.value)
            THEN Raise("ValueError")
       ELSE LET sp == Point_from_json(None, loaded.value.start_point)
                ep == Point_from_json(None, loaded.value.end_point)
            IN IF sp.out # "ok" \/ ep.out # "ok" THEN Raise("ValueError")
               \* cls(...) in a function that has no name cls
               ELSE Raise("NameError")

\* --------------------------------------------------------------- Container
Conforming(el) == IsPoint(el)

\* Container.__init__: the filtered list, then every conforming argument
\* appended to it once more by the loop
Container_init(elements) ==
    LET approved_elements == SelectSeq(elements, Conforming)
    IN approved_elements \o SelectSeq(elements, Conforming)

\* list.append
List_append(list, element) == list \o <<element>>

\* list.insert: a negative index counts from the end, then clamps
List_insert(list, index, element) ==
    LET n == Len(list)
        w1 == IF index < 0 THEN index + n ELSE index
        w2 == IF w1 < 0 THEN 0 ELSE w1
        where == IF w2 > n THEN n ELSE w2
    IN [k \in 1..(n + 1) |->
          IF k <= where THEN list[k]
          ELSE IF k = where + 1 THEN element
          ELSE list[k - 1]]

Container_append_unchecked(self, element) ==
    [out |-> "ok", list |-> List_append(self, element)]

\* Container.append: the outcome and the list afterwards
Container_append(self, element) ==
    IF ~Conforming(element) THEN [out |-> "ValueError", list |-> self]
    ELSE [out |-> "ok", list |-> List_append(self, element)]

\* Container.extend
Container_extend(self, elements) ==
    LET approved_elements == SelectSeq(elements, Conforming)
    IN [out |-> "ok", list |-> self \o approved_elements]

Container_insert_late_check(self, index, element) ==
    IF ~Conforming(element)
    THEN [out |-> "ValueError", list |-> List_insert(self, index, element)]
    ELSE [out |-> "ok", list |-> List_insert(self, index, element)]

\* Container.insert
Container_insert(self, index, element) ==
    IF ~Conforming(element) THEN [out |-> "ValueError", list |-> self]
    ELSE [out |-> "ok", list |-> List_insert(self, index, element)]

\* list.clear
Container_clear(self) == [out |-> "ok", list |-> <<>>]

\* Container.to_json
Container_to_json(self, to_dict) ==
    LET json_dict ==
          [type |-> "Container",
           elements |-> [i \in 1..Len(self) |->
                           IF IsVector(self[i]) THEN Vector_to_json(self[i], TRUE)
                           ELSE Point_to_json(self[i], TRUE)]]
    IN IF to_dict THEN json_dict ELSE json_dumps(json_dict)

\* the loop of Container.from_json over elements[i..]: the first exception
\* that escapes an element, else the list of approved elements
RECURSIVE FromJsonLoop(_, _, _)
FromJsonLoop(elements, i, approved_elements) ==
    IF i > Len(elements) THEN Ok(approved_elements)
    ELSE LET element == elements[i]
         IN IF "type" \notin DOMAIN element THEN Raise("KeyError")
            ELSE IF element.type = "Vector"
            THEN LET r == Vector_from_json(ClassVector, element)
                 IN IF r.out # "ok" THEN r
                    ELSE FromJsonLoop(elements, i + 1,
                                      Append(approved_elements, r.value))
            ELSE IF element.type = "Point"
            THEN LET r == Point_from_json(None, element)
                 IN IF r.out # "ok" THEN r
                    ELSE FromJsonLoop(elements, i + 1,
                                      Append(approved_elements, r.value))
            ELSE FromJsonLoop(elements, i + 1, approved_elements)

\* Container.from_json(json_string, json_dict)
Container_from_json(json_string, json_dict) ==
    LET loaded == IF Truthy(json_string) THEN json_loads(json_string)
                  ELSE Ok(json_dict)
    IN IF loaded.out # "ok" THEN loaded
       ELSE IF ~Truthy(loaded.value) THEN Raise("ValueError")
       ELSE IF "elements" \notin DOMAIN loaded.value THEN Raise("ValueError")
       ELSE LET r == FromJsonLoop(loaded.value.elements, 1, <<>>)
            IN IF r.out \in {"KeyError", "ValueError"} THEN Raise("ValueError")
               ELSE IF r.out # "ok" THEN r
               ELSE Ok(Container_init(r.value))

\* ------------------------------------------------- Points and Vectors alive
\* Objects are held by identity: P maps a Point's identity to its attribute
\* dictionary, V a Vector's identity to its own; a Vector's start_point and
\* end_point hold the identity of a Point.  A free identity maps to None.
MaxPts == 2       \* Points alive besides the default start point
MaxVecs == 2      \* Vectors alive
MaxWrites == 1    \* attribute assignments explored

PIds == 0..MaxPts

VIds == 1..MaxVecs

\* the Point(0, 0, 0) built once, when the def of Vector.__init__ is run
DefaultStart == 0

PointRef(p) == [type |-> "Point", id |-> p]

VectorRef(v) == [type |-> "Vector", id |-> v]

Alive(H) == {i \in DOMAIN H : H[i].type # "NoneType"}

HasFree(H) == \E i \in DOMAIN H : H[i].type = "NoneType"

\* the identity a new object gets
Fresh(H) == CHOOSE i \in DOMAIN H :
                /\ H[i].type = "NoneType"
                /\ \A j \in DOMAIN H : j < i => H[j].type # "NoneType"

\* a Vector alive, by value
Deref(P, V, v) ==
    VectorVal(V[v].x, V[v].y, V[v].z,
              P[V[v].start_point], P[V[v].end_point])

\* the number a Python int or float stands for: a whole float equals the
\* int, any other float is kept as its decimal fraction
NumVal(n) ==
    IF n.type = "int" THEN n.ival
    ELSE IF n.den = 1 THEN n.num
    ELSE [num |-> n.num, den |-> n.den]

\* Point.__init__
Point_init(x, y, z) ==
    IF ~IsNumber(x) \/ ~IsNumber(y) \/ ~IsNumber(z) THEN Raise("ValueError")
    ELSE Ok(PointVal(NumVal(x), NumVal(y), NumVal(z)))

\* Point.__setattr__ on the attribute dictionary `self`
Point_setattr(self, name, value) ==
    IF name \notin {"x", "y", "z"} THEN Raise("AttributeError")
    ELSE IF ~IsNumber(value) THEN Raise("ValueError")
    ELSE Ok([self EXCEPT ![name] = value.ival])

\* Vector.__init__(x, y, z, start_point, end_point) in the heap P, V:
\* the outcome, the heap afterwards and the identity of the new Vector
Vector_init(P, V, x, y, z, start_point, end_point) ==
    LET sp == P[start_point.id]
        v == Fresh(V)
    IN IF end_point.type = "NoneType"
       THEN IF x.type = "NoneType" \/ y.type = "NoneType" \/ z.type = "NoneType"
            THEN [out |-> "ValueError", pts |-> P, vecs |-> V, v |-> 0]
            ELSE IF Point_init(x, y, z).out # "ok"
            THEN [out |-> "ValueError", pts |-> P, vecs |-> V, v |-> 0]
            ELSE LET e == Fresh(P)
                 IN [out |-> "ok",
                     pts |-> [P EXCEPT ![e] = PointVal(sp.x + x.ival,
                                                       sp.y + y.ival,
                                                       sp.z + z.ival)],
                     vecs |-> [V EXCEPT ![v] =
                                 [type |-> "Vector",
                                  x |-> x.ival, y |-> y.ival, z |-> z.ival,
                                  start_point |-> start_point.id,
                                  end_point |-> e]],
                     v |-> v]
       ELSE LET ep == P[end_point.id]
            IN [out |-> "ok",
                pts |-> P,
                vecs |-> [V EXCEPT ![v] =
                            [type |-> "Vector",
                             x |-> ep.x - sp.x, y |-> ep.y - sp.y,
                             z |-> ep.z - sp.z,
                             start_point |-> start_point.id,
                             end_point |-> end_point.id]],
                v |-> v]

\* Vector.__setattr__ on the attribute dictionary `self`
Vector_setattr(self, name, value) ==
    IF name \in {"x", "y", "z"} THEN Point_setattr(self, name, value)
    ELSE IF name \in {"start_point", "end_point"}
    THEN IF ~IsPoint(value) THEN Raise("ValueError")
         ELSE Ok([self EXCEPT ![name] = value.id])
    ELSE Raise("AttributeError")

\* Vector.__mul__: a new Vector for a number, the dot product for a Vector
Vector_mul(P, V, self, other) ==
    IF IsNumber(other)
    THEN Vector_init(P, V, PyInt(V[self].x * other.ival),
                     PyInt(V[self].y * other.ival),
                     PyInt(V[self].z * other.ival),
                     PointRef(V[self].start_point), None)
    ELSE IF IsVector(other)
    THEN [out |-> "ok", pts |-> P, vecs |-> V, v |-> 0,
          scalar |-> V[self].x * V[other.id].x + V[self].y * V[other.id].y
                       + V[self].z * V[other.id].z]
    ELSE [out |-> "ValueError", pts |-> P, vecs |-> V, v |-> 0]

\* Vector.__add__
Vector_add(P, V, self, other) ==
    IF ~IsVector(other)
    THEN [out |-> "ValueError", pts |-> P, vecs |-> V, v |-> 0]
    ELSE Vector_init(P, V, PyInt(V[self].x + V[other.id].x),
                     PyInt(V[self].y + V[other.id].y),
                     PyInt(V[self].z + V[other.id].z),
                     PointRef(V[self].start_point), None)

\* -other: neither Vector nor Point defines __neg__
Vector_neg(P, V, other) ==
    [out |-> "TypeError", pts |-> P, vecs |-> V, v |-> 0]

\* Vector.__sub__
Vector_sub(P, V, self, other) ==
    IF ~IsVector(other)
    THEN [out |-> "ValueError", pts |-> P, vecs |-> V, v |-> 0]
    ELSE LET negated == Vector_neg(P, V, other)
         IN IF negated.out # "ok" THEN negated
            ELSE Vector_add(negated.pts, negated.vecs, self,
                            VectorRef(negated.v))

\* the body of Vector.collinear on its two parameters
Collinear_body(V, first, second) ==
    IF ~IsVector(first) \/ ~IsVector(second) THEN Raise("ValueError")
    ELSE LET a == V[first.id]
             b == V[second.id]
         IN IF b.x = 0 \/ b.y = 0 \/ b.z = 0 THEN Raise("ZeroDivisionError")
            ELSE Ok(a.x * b.y = a.y * b.x /\ a.y * b.z = a.z * b.y)

\* the call Vector.collinear(*args): a classmethod declared with the two
\* parameters (first, second) and no cls, so the class is bound to first
Vector_collinear(V, args) ==
    IF Len(args) + 1 # 2 THEN Raise("TypeError")
    ELSE Collinear_body(V, ClassVector, args[1])

\* ---------------------------------------------------------------- parsing
\* A str is the sequence of its characters.
Digits == {"0", "1", "2", "3", "4", "5", "6", "7", "8", "9"}

\* POINT_SPLITTERS: the class [\(;\)]
POINT_SPLITTERS == {"(", ";", ")"}

AllDigits(s, a, b) == \A k \in a..b : s[k] \in Digits

\* s[i..j] matches [+-]?([0-9]*[.])?[0-9]+
NumMatch(s, i, j) ==
    /\ 1 <= i /\ i <= j /\ j <= Len(s)
    /\ LET a == IF s[i] \in {"+", "-"} THEN i + 1 ELSE i
       IN /\ a <= j
          /\ \/ AllDigits(s, a, j)
             \/ \E d \in a..(j - 1) :
                   s[d] = "." /\ AllDigits(s, a, d - 1) /\ AllDigits(s, d + 1, j)

\* string matches POINT_REGEX from its first character up to some position
\* (re.match anchors the start only): the position after each part in turn
re_match(string) ==
    /\ Len(string) >= 1
    /\ string[1] = "("
    /\ \E a \in 2..Len(string) :
          /\ NumMatch(string, 2, a)
          /\ a + 1 <= Len(string) /\ string[a + 1] = ";"
          /\ \E b \in (a + 2)..Len(string) :
                /\ NumMatch(string, a + 2, b)
                /\ b + 1 <= Len(string) /\ string[b + 1] = ";"
                /\ \E c \in (b + 2)..Len(string) :
                      /\ NumMatch(string, b + 2, c)
                      /\ c + 1 <= Len(string) /\ string[c + 1] = ")"

\* filter(None, re.split(POINT_SPLITTERS, string)) from position i on, cur
\* being the piece under construction: the non-empty pieces, in order
RECURSIVE SplitFrom(_, _, _)
SplitFrom(string, i, cur) ==
    IF i > Len(string) THEN (IF cur = <<>> THEN <<>> ELSE <<cur>>)
    ELSE IF string[i] \in POINT_SPLITTERS
    THEN (IF cur = <<>> THEN <<>> ELSE <<cur>>) \o SplitFrom(string, i + 1, <<>>)
    ELSE SplitFrom(string, i + 1, Append(cur, string[i]))

DigitVal(c) ==
    CASE c = "0" -> 0 [] c = "1" -> 1 [] c = "2" -> 2 [] c = "3" -> 3
      [] c = "4" -> 4 [] c = "5" -> 5 [] c = "6" -> 6 [] c = "7" -> 7
      [] c = "8" -> 8 [] c = "9" -> 9

\* the number written by the digits s[a..b] (0 for none)
RECURSIVE DigitsVal(_, _, _)
DigitsVal(s, a, b) ==
    IF a > b THEN 0 ELSE DigitsVal(s, a, b - 1) * 10 + DigitVal(s[b])

RECURSIVE Pow10(_)
Pow10(n) == IF n = 0 THEN 1 ELSE 10 * Pow10(n - 1)

\* num/den with the trailing zeros of the fraction dropped
RECURSIVE Reduce10(_, _)
Reduce10(num, den) ==
    IF den > 1 /\ num % 10 = 0 THEN Reduce10(num \div 10, den \div 10)
    ELSE [type |-> "float", num |-> num, den |-> den]

\* float(piece) on the decimal notation the pattern admits; ValueError on
\* anything else
float(piece) ==
    IF ~NumMatch(piece, 1, Len(piece)) THEN Raise("ValueError")
    ELSE LET neg == piece[1] = "-"
             a == IF piece[1] \in {"+", "-"} THEN 2 ELSE 1
             n == Len(piece)
             dots == {d \in a..n : piece[d] = "."}
             d == IF dots = {} THEN n + 1 ELSE CHOOSE k \in dots : TRUE
             mag == DigitsVal(piece, a, d - 1) * Pow10(n - d + (IF d > n THEN 1 ELSE 0))
                      + DigitsVal(piece, d + 1, n)
             den == IF d > n THEN 1 ELSE Pow10(n - d)
         IN Ok(Reduce10(IF neg THEN 0 - mag ELSE mag, den))

\* Point.from_str
Point_from_str(string) ==
    IF ~re_match(string) THEN Raise("ValueError")
    ELSE LET pieces == SplitFrom(string, 1, <<>>)
         IN IF Len(pieces) # 3 THEN Raise("ValueError")
            ELSE LET x == float(pieces[1])
                     y == float(pieces[2])
                     z == float(pieces[3])
                 IN IF x.out # "ok" \/ y.out # "ok" \/ z.out # "ok"
                    THEN Raise("ValueError")
                    ELSE Point_init(x.value, y.value, z.value)

\* ------------------------------------------------------------------- menu
\* str.split(':') from position i on, cur being the part under
\* construction: every part, the empty ones included
RECURSIVE SplitColon(_, _, _)
SplitColon(string, i, cur) ==
    IF i > Len(string) THEN <<cur>>
    ELSE IF string[i] = ":" THEN <<cur>> \o SplitColon(string, i + 1, <<>>)
    ELSE SplitColon(string, i + 1, Append(cur, string[i]))

\* cls(start_point=start_point, end_point=end_point) on two Points given by
\* value: Vector.__init__ run on a heap of its own, the result by value
Vector_of_points(start_point, end_point) ==
    LET P == [p \in 0..2 |-> IF p = 0 THEN PointVal(0, 0, 0)
                             ELSE IF p = 1 THEN start_point ELSE end_point]
        V == [v \in 1..1 |-> None]
        r == Vector_init(P, V, None, None, None, PointRef(1), PointRef(2))
    IN IF r.out # "ok" THEN Raise(r.out)
       ELSE Ok(Deref(r.pts, r.vecs, r.v))

\* Vector.from_str once both halves went through Point.from_str
Vector_from_points(start_point, end_point) ==
    IF start_point.out # "ok" \/ end_point.out # "ok"
    THEN Raise("ValueError")
    ELSE Vector_of_points(start_point.value, end_point.value)

\* Vector.from_str
Vector_from_str(string) ==
    LET parts == SplitColon(string, 1, <<>>)
    IN IF Len(parts) # 2 THEN Raise("ValueError")
       ELSE Vector_from_points(Point_from_str(parts[1]),
                               Point_from_str(parts[2]))

\* str.strip(): leading and trailing blanks removed
RECURSIVE strip(_)
strip(string) ==
    IF string = <<>> THEN string
    ELSE IF string[1] = " " THEN strip(Tail(string))
    ELSE IF string[Len(string)] = " "
    THEN strip(SubSeq(string, 1, Len(string) - 1))
    ELSE string

\* State(n): the member of the enumeration with value n
State(n) ==
    CASE n = 0 -> "INPUT" [] n = 1 -> "POINT_INPUT" [] n = 2 -> "VECTOR_INPUT"
      [] n = 3 -> "OUTPUT" [] n = 4 -> "FILE_OUTPUT" [] n = 5 -> "CLEAR"
      [] n = 6 -> "EXIT"

\* case State.INPUT, on the line read: the next state
case_INPUT(line) ==
    LET stripped == strip(line)
    IN IF stripped \in {<<"1">>, <<"2">>, <<"3">>, <<"4">>, <<"5">>, <<"6">>}
       THEN State(DigitVal(stripped[1]))
       ELSE State(0)

\* the try block with no except clause: every exception ends the program
try_append_uncaught(self, parsed, prompt) ==
    LET r == IF parsed.out = "ok" THEN Container_append(self, parsed.value)
             ELSE [out |-> parsed.out, list |-> self]
    IN IF r.out = "ok"
       THEN [state |-> State(0), list |-> r.list, caught |-> "none"]
       ELSE [state |-> "CRASHED", list |-> r.list, caught |-> "none"]

\* the try block of the two input branches, parsed being what from_str
\* gave: append and back to the menu, or ValueError caught and the same
\* prompt again; an exception not caught ends the program
try_append(self, parsed, prompt) ==
    LET r == IF parsed.out = "ok" THEN Container_append(self, parsed.value)
             ELSE [out |-> parsed.out, list |-> self]
    IN IF r.out = "ok"
       THEN [state |-> State(0), list |-> r.list, caught |-> "none"]
       ELSE IF r.out = "ValueError"
       THEN [state |-> prompt, list |-> r.list, caught |-> "ValueError"]
       ELSE [state |-> "CRASHED", list |-> r.list, caught |-> "none"]

\* case State.POINT_INPUT, on the line read: the next state, the container
\* and the exception caught
case_POINT_INPUT(self, point_string) ==
    try_append(self, Point_from_str(point_string), State(1))

\* case State.VECTOR_INPUT, likewise
case_VECTOR_INPUT(self, vector_string) ==
    try_append(self, Vector_from_str(vector_string), State(2))

\* ------------------------------------------------------------------ state
VARIABLES
    container,   \* main.py: the Container the program works on
    cres,        \* the last Container call: operation, arguments, outcome
    pts,         \* the Point objects alive, by identity
    vecs,        \* the Vector objects alive, by identity
    vres,        \* the last Point/Vector call: operation, arguments, outcome
    writes,      \* attribute assignments made so far
    ptext,       \* the text handed to Point.from_str
    pres,        \* the last Point.from_str call: text and outcome
    state,       \* main.py: the State the menu loop is in
    file,        \* the content of output.json
    user_input,  \* the line the last input() returned
    caught       \* the exception the last iteration caught ("none" if none)

cvars == <<container, cres>>

hvars == <<pts, vecs, vres, writes>>

svars == <<ptext, pres>>

mvars == <<state, file, user_input, caught>>

vars == <<container, cres, pts, vecs, vres, writes, ptext, pres,
          state, file, user_input, caught>>

\* the objects handed to the Container: two Points, a Vector, and two
\* objects that are neither (container.py:10 appends 3)
Origin == PointVal(0, 0, 0)

Elems == {PointVal(1, 1, 1), PointVal(0, 2, 0),
          VectorVal(2, 2, 2, Origin, PointVal(2, 2, 2)),
          PyInt(3), PyStr("bad")}

RECURSIVE SeqsUpTo(_, _)
SeqsUpTo(S, n) ==
    IF n = 0 THEN {<<>>}
    ELSE LET shorter == SeqsUpTo(S, n - 1)
         IN shorter \cup {Append(s, e) : s \in shorter, e \in S}

ArgLists == SeqsUpTo(Elems, MaxArgs)

Indexes == (0 - MaxLen - 1)..(MaxLen + 1)

InitContainer ==
    /\ container = <<>>
    /\ cres = [op |-> "none", out |-> "ok"]

\* only the default start point exists
InitHeap ==
    /\ pts = [p \in PIds |-> IF p = DefaultStart THEN PointVal(0, 0, 0) ELSE None]
    /\ vecs = [v \in VIds |-> None]
    /\ vres = [op |-> "none", out |-> "ok"]
    /\ writes = 0

InitParse ==
    /\ ptext = <<>>
    /\ pres = [op |-> "none", out |-> "ok"]

\* the program has not started
InitMenu ==
    /\ state = "START"
    /\ file = Container_to_json(<<>>, FALSE)
    /\ user_input = <<>>
    /\ caught = "none"

Init == InitContainer /\ InitHeap /\ InitParse /\ InitMenu

\* container = Container(*elements)
ContainerNew ==
    \E elements \in ArgLists :
        /\ container' = Container_init(elements)
        /\ cres' = [op |-> "init", elements |-> elements, out |-> "ok"]
        /\ UNCHANGED <<hvars, svars, mvars>>

\* container.append(element)
ContainerAppend ==
    \E element \in Elems :
        LET r == Container_append(container, element)
        IN /\ Len(container) < MaxLen
           /\ container' = r.list
           /\ cres' = [op |-> "append", element |-> element, out |-> r.out]
           /\ UNCHANGED <<hvars, svars, mvars>>

\* container.extend(elements)
ContainerExtend ==
    \E elements \in ArgLists :
        LET r == Container_extend(container, elements)
        IN /\ Len(container) < MaxLen
           /\ container' = r.list
           /\ cres' = [op |-> "extend", elements |-> elements, out |-> r.out]
           /\ UNCHANGED <<hvars, svars, mvars>>

\* container.insert(index, element)
ContainerInsert ==
    \E index \in Indexes, element \in Elems :
        LET r == Container_insert(container, index, element)
        IN /\ Len(container) < MaxLen
           /\ container' = r.list
           /\ cres' = [op |-> "insert", index |-> index,
                       element |-> element, out |-> r.out]
           /\ UNCHANGED <<hvars, svars, mvars>>

\* container.clear()
ContainerClear ==
    LET r == Container_clear(container)
    IN /\ container' = r.list
       /\ cres' = [op |-> "clear", out |-> r.out]
       /\ UNCHANGED <<hvars, svars, mvars>>

\* Container.from_json(container.to_json()), the container itself kept
ContainerRoundTrip ==
    LET r == Container_from_json(Container_to_json(container, FALSE), None)
    IN /\ container' = container
       /\ cres' = [op |-> "roundtrip", out |-> r.out,
                   loaded |-> IF r.out = "ok" THEN r.value ELSE <<>>]
       /\ UNCHANGED <<hvars, svars, mvars>>

NextContainer ==
    \/ ContainerNew
    \/ ContainerAppend
    \/ ContainerExtend
    \/ ContainerInsert
    \/ ContainerClear
    \/ ContainerRoundTrip

SpecContainer == Init /\ [][NextContainer]_vars

\* ------------------------------------------------- Point/Vector operations
\* coordinate triples handed to the constructors
Triples == {<<1, 2, 3>>, <<2, 4, 6>>}

\* (x, y, z) of a Vector(...) call: all given, none given, one missing
XyzArgs ==
    {<<PyInt(t[1]), PyInt(t[2]), PyInt(t[3])>> : t \in Triples}
      \cup {<<None, None, None>>, <<None, PyInt(2), PyInt(3)>>,
            <<PyInt(1), None, PyInt(3)>>, <<PyInt(1), PyInt(2), None>>}

\* the Points the caller can name: those it built itself and those some
\* Vector holds (the default start point only once a Vector starts there)
Held == {p \in Alive(pts) :
            \/ p # DefaultStart
            \/ \E v \in Alive(vecs) :
                  vecs[v].start_point = p \/ vecs[v].end_point = p}

\* values assigned to attributes
WriteVals == {PyInt(5), PyStr("bad")} \cup {PointRef(p) : p \in Held}

\* right operands of *, +, - and arguments of collinear
Operands == {PyInt(2), PyStr("bad")}
               \cup {VectorRef(w) : w \in Alive(vecs)}

\* Point(x, y, z)
PointNew ==
    \E t \in Triples :
        LET r == Point_init(PyInt(t[1]), PyInt(t[2]), PyInt(t[3]))
            p == Fresh(pts)
        IN /\ HasFree(pts)
           /\ pts' = [pts EXCEPT ![p] = r.value]
           /\ vres' = [op |-> "point", out |-> r.out, p |-> p]
           /\ UNCHANGED <<vecs, writes, cvars, svars, mvars>>

\* p.name = value on a Point alive (one held by a Vector included)
PointSet ==
    \E p \in Held, name \in {"x", "y", "z", "w"}, value \in WriteVals :
        LET r == Point_setattr(pts[p], name, value)
        IN /\ writes < MaxWrites
           /\ writes' = writes + 1
           /\ pts' = IF r.out = "ok" THEN [pts EXCEPT ![p] = r.value] ELSE pts
           /\ vres' = [op |-> "point_setattr", out |-> r.out, p |-> p,
                       name |-> name, value |-> value]
           /\ UNCHANGED <<vecs, cvars, svars, mvars>>

\* Vector(x, y, z, start_point, end_point); given = FALSE leaves
\* start_point to its default
VectorNew ==
    \E xyz \in XyzArgs, given \in BOOLEAN, s \in Held \cup {DefaultStart},
       end_point \in {None} \cup {PointRef(p) : p \in Held} :
        LET start_point == IF given THEN PointRef(s) ELSE PointRef(DefaultStart)
            r == Vector_init(pts, vecs, xyz[1], xyz[2], xyz[3],
                             start_point, end_point)
        IN /\ HasFree(vecs) /\ HasFree(pts)
           /\ IF given THEN s \in Held ELSE s = DefaultStart
           /\ pts' = r.pts
           /\ vecs' = r.vecs
           /\ vres' = [op |-> "init", out |-> r.out, v |-> r.v,
                       x |-> xyz[1], y |-> xyz[2], z |-> xyz[3],
                       given |-> given, start_point |-> start_point,
                       end_point |-> end_point]
           /\ UNCHANGED <<writes, cvars, svars, mvars>>

FieldNames == {"x", "y", "z", "start_point", "end_point", "w"}

\* v.name = value on a Vector alive
VectorSet ==
    \E v \in Alive(vecs), name \in FieldNames, value \in WriteVals :
        LET r == Vector_setattr(vecs[v], name, value)
        IN /\ writes < MaxWrites
           /\ writes' = writes + 1
           /\ vecs' = IF r.out = "ok" THEN [vecs EXCEPT ![v] = r.value] ELSE vecs
           /\ vres' = [op |-> "setattr", out |-> r.out, v |-> v,
                       name |-> name, value |-> value]
           /\ UNCHANGED <<pts, cvars, svars, mvars>>

\* a * other
VectorMul ==
    \E a \in Alive(vecs), other \in Operands :
        LET r == Vector_mul(pts, vecs, a, other)
        IN /\ HasFree(vecs) /\ HasFree(pts)
           /\ pts' = r.pts
           /\ vecs' = r.vecs
           /\ vres' = [op |-> "mul", out |-> r.out, v |-> r.v,
                       self |-> a, other |-> other]
           /\ UNCHANGED <<writes, cvars, svars, mvars>>

\* a + other
VectorAdd ==
    \E a \in Alive(vecs), other \in Operands :
        LET r == Vector_add(pts, vecs, a, other)
        IN /\ HasFree(vecs) /\ HasFree(pts)
           /\ pts' = r.pts
           /\ vecs' = r.vecs
           /\ vres' = [op |-> "add", out |-> r.out, v |-> r.v,
                       self |-> a, other |-> other]
           /\ UNCHANGED <<writes, cvars, svars, mvars>>

\* a - other
VectorSub ==
    \E a \in Alive(vecs), other \in Operands :
        LET r == Vector_sub(pts, vecs, a, other)
        IN /\ HasFree(vecs) /\ HasFree(pts)
           /\ pts' = r.pts
           /\ vecs' = r.vecs
           /\ vres' = [op |-> "sub", out |-> r.out, v |-> r.v,
                       self |-> a, other |-> other]
           /\ UNCHANGED <<writes, cvars, svars, mvars>>

\* Vector.collinear(first, second)
VectorCollinear ==
    \E first \in Operands, second \in Operands :
        LET r == Vector_collinear(vecs, <<first, second>>)
        IN /\ vres' = [op |-> "collinear", out |-> r.out,
                       first |-> first, second |-> second,
                       result |-> IF r.out = "ok" THEN r.value ELSE FALSE]
           /\ UNCHANGED <<pts, vecs, writes, cvars, svars, mvars>>

\* Vector.from_json(v.to_json(to_dict)): the text or the mapping is the one
\* argument of the call
VectorRoundTrip ==
    \E v \in Alive(vecs), to_dict \in BOOLEAN :
        LET r == Vector_from_json(ClassVector,
                                  Vector_to_json(Deref(pts, vecs, v), to_dict))
        IN /\ vres' = [op |-> "from_json", out |-> r.out, v |-> v,
                       to_dict |-> to_dict,
                       loaded |-> IF r.out = "ok" THEN r.value ELSE None]
           /\ UNCHANGED <<pts, vecs, writes, cvars, svars, mvars>>

\* construction and every attribute assignment
NextVector ==
    \/ PointNew
    \/ PointSet
    \/ VectorNew
    \/ VectorSet

SpecVector == Init /\ [][NextVector]_vars

\* construction and assignments to a Vector's own attributes only
NextSetField ==
    \/ PointNew
    \/ VectorNew
    \/ VectorSet

SpecSetField == Init /\ [][NextSetField]_vars

\* construction and arithmetic
NextArith ==
    \/ PointNew
    \/ VectorNew
    \/ VectorMul
    \/ VectorAdd
    \/ VectorSub
    \/ VectorCollinear

SpecArith == Init /\ [][NextArith]_vars

\* construction and the JSON round trip of a Vector
NextJson ==
    \/ PointNew
    \/ VectorNew
    \/ VectorRoundTrip

SpecJson == Init /\ [][NextJson]_vars

\* Vector(...) on arguments no other object holds: Vector(x, y, z),
\* Vector(x, y, z, start_point=Point(..)) or
\* Vector(start_point=Point(..), end_point=Point(..))
VectorFresh ==
    \E form \in {"xyz", "xyz_start", "start_end"},
       t \in Triples, t1 \in Triples, t2 \in Triples :
        LET p1 == Fresh(pts)
            P1 == [pts EXCEPT ![p1] = Point_init(PyInt(t1[1]), PyInt(t1[2]),
                                                 PyInt(t1[3])).value]
            p2 == Fresh(P1)
            P2 == [P1 EXCEPT ![p2] = Point_init(PyInt(t2[1]), PyInt(t2[2]),
                                                PyInt(t2[3])).value]
            r == IF form = "xyz"
                 THEN Vector_init(pts, vecs, PyInt(t[1]), PyInt(t[2]),
                                  PyInt(t[3]), PointRef(DefaultStart), None)
                 ELSE IF form = "xyz_start"
                 THEN Vector_init(P1, vecs, PyInt(t[1]), PyInt(t[2]),
                                  PyInt(t[3]), PointRef(p1), None)
                 ELSE Vector_init(P2, vecs, None, None, None,
                                  PointRef(p1), PointRef(p2))
        IN /\ HasFree(vecs)
           /\ Cardinality(PIds \ Alive(pts)) >= (IF form = "xyz" THEN 1 ELSE 2)
           /\ form = "xyz" => (t1 = t /\ t2 = t)
           /\ form = "xyz_start" => t2 = t
           /\ form = "start_end" => t = t1
           /\ pts' = r.pts
           /\ vecs' = r.vecs
           /\ vres' = [op |-> "init_fresh", out |-> r.out, v |-> r.v,
                       form |-> form]
           /\ UNCHANGED <<writes, cvars, svars, mvars>>

\* Vectors built on arguments of their own, scaled and added, and writes to
\* the coordinates of the Points they hold
NextOwn ==
    \/ VectorFresh
    \/ VectorMul
    \/ VectorAdd
    \/ PointSet

SpecOwn == Init /\ [][NextOwn]_vars

\* ---------------------------------------------------------- parsing a Point
MaxTail == 2      \* characters typed after the last coordinate's close

\* what may stand where a number is expected
NumTexts == {<<"1">>, <<"-", "2">>, <<"2", ".", "5">>, <<".", "5">>,
             <<"3", ".">>, <<>>}

TailChars == {")", ";", "(", "a"}

\* the texts handed to Point.from_str: three number slots, the parentheses
\* present or not, and a tail
Texts ==
    {open \o n1 \o <<";">> \o n2 \o <<";">> \o n3 \o close \o tail :
        open \in {<<"(">>, <<>>}, n1 \in NumTexts, n2 \in NumTexts,
        n3 \in NumTexts, close \in {<<")">>, <<>>},
        tail \in SeqsUpTo(TailChars, MaxTail)}

\* a text has been read and waits to be parsed
InitText ==
    /\ InitContainer /\ InitHeap /\ InitMenu
    /\ ptext \in Texts
    /\ pres = [op |-> "none", out |-> "ok"]

\* Point.from_str(ptext)
PointParse ==
    LET r == Point_from_str(ptext)
    IN /\ pres.op = "none"
       /\ pres' = [op |-> "from_str", out |-> r.out,
                   point |-> IF r.out = "ok" THEN r.value ELSE None]
       /\ UNCHANGED <<cvars, hvars, ptext, mvars>>

NextParse ==
    \/ PointParse

SpecParse == InitText /\ [][NextParse]_vars

\* ------------------------------------------------------------ the menu loop
\* a string as the sequence of its characters
Chars(str) ==
    CASE str = "" -> <<>>
      [] str = "p" -> <<"(", "1", ";", "2", ";", "3", ")">>
      [] str = "q" -> <<"(", "2", ";", "4", ";", "6", ")">>
      [] str = "p-open" -> <<"(", "1", ";", "2", ";", "3">>

\* lines typed at the menu prompt
MenuLines == {<<"1">>, <<"2">>, <<"3">>, <<"4">>, <<"5">>, <<"6">>,
              <<" ", "6", " ">>, <<" ", "1">>, <<"7">>, <<"0">>, <<>>,
              <<"a">>, <<"1", "2">>, <<"6", " ", "6">>}

\* lines typed at the Point prompt
PointLines == {Chars("p"), Chars("p") \o <<")">>, Chars("p-open"),
               Chars("p") \o <<"a">>, <<>>, <<" ">> \o Chars("p"),
               Chars("p") \o <<":">> \o Chars("q")}

\* lines typed at the Vector prompt
VectorLines == {Chars("p") \o <<":">> \o Chars("q"), Chars("p"),
                Chars("p") \o <<":">> \o Chars("q") \o <<":">> \o Chars("p"),
                Chars("p") \o <<":">> \o Chars("p-open"),
                Chars("p") \o <<":">>, <<":">>, <<>>,
                Chars("p") \o <<":">> \o Chars("q") \o <<"a">>}

\* what output.json holds when the program starts
FirstFiles ==
    {Container_to_json(<<>>, FALSE),
     Container_to_json(<<PointVal(1, 2, 3)>>, FALSE),
     Container_to_json(<<VectorVal(1, 2, 3, PointVal(1, 2, 3),
                                   PointVal(2, 4, 6))>>, FALSE)}

InitFile ==
    /\ InitContainer /\ InitHeap /\ InitParse
    /\ state = "START"
    /\ file \in FirstFiles
    /\ user_input = <<>>
    /\ caught = "none"

\* main.py:29-31: the Container is read from output.json
MenuStart ==
    LET r == Container_from_json(file, None)
    IN /\ state = "START"
       /\ container' = IF r.out = "ok" THEN r.value ELSE container
       /\ state' = IF r.out = "ok" THEN State(0) ELSE "CRASHED"
       /\ UNCHANGED <<file, user_input, caught, cres, hvars, svars>>

\* case State.INPUT
MenuInput ==
    \E line \in MenuLines :
        /\ state = "INPUT"
        /\ user_input' = line
        /\ state' = case_INPUT(line)
        /\ caught' = "none"
        /\ UNCHANGED <<container, file, cres, hvars, svars>>

\* case State.POINT_INPUT
MenuPointInput ==
    \E line \in PointLines :
        \E r \in {case_POINT_INPUT(container, line)} :
           /\ state = "POINT_INPUT"
           /\ Len(r.list) <= MaxLen
           /\ user_input' = line
           /\ state' = r.state
           /\ container' = r.list
           /\ caught' = r.caught
           /\ UNCHANGED <<file, cres, hvars, svars>>

\* case State.VECTOR_INPUT
MenuVectorInput ==
    \E line \in VectorLines :
        \E r \in {case_VECTOR_INPUT(container, line)} :
           /\ state = "VECTOR_INPUT"
           /\ Len(r.list) <= MaxLen
           /\ user_input' = line
           /\ state' = r.state
           /\ container' = r.list
           /\ caught' = r.caught
           /\ UNCHANGED <<file, cres, hvars, svars>>

\* case State.OUTPUT
MenuOutput ==
    /\ state = "OUTPUT"
    /\ state' = State(0)
    /\ UNCHANGED <<container, file, user_input, caught, cres, hvars, svars>>

\* case State.FILE_OUTPUT
MenuFileOutput ==
    /\ state = "FILE_OUTPUT"
    /\ file' = Container_to_json(container, FALSE)
    /\ state' = State(0)
    /\ UNCHANGED <<container, user_input, caught, cres, hvars, svars>>

\* case State.CLEAR
MenuClear ==
    /\ state = "CLEAR"
    /\ container' = Container_clear(container).list
    /\ state' = State(0)
    /\ UNCHANGED <<file, user_input, caught, cres, hvars, svars>>

\* case State.EXIT: break
MenuExit ==
    /\ state = "EXIT"
    /\ state' = "DONE"
    /\ UNCHANGED <<container, file, user_input, caught, cres, hvars, svars>>

NextMenu ==
    \/ MenuStart
    \/ MenuInput
    \/ MenuPointInput
    \/ MenuVectorInput
    \/ MenuOutput
    \/ MenuFileOutput
    \/ MenuClear
    \/ MenuExit

SpecMenu == InitFile /\ [][NextMenu]_vars

\* the interpreter runs the next iteration of `while True` once it is due
FairSpecMenu == SpecMenu /\ WF_vars(MenuExit)

\* ----------------------------------------------------------------- claims

\* C1: after any sequence of Container operations (construct, append,
\* extend, insert, clear), succeeding or raising, every element held by the
\* Container is a Point or a Vector.
C1_OnlyPointsAndVectors ==
    \A i \in 1..Len(container) : container[i].type \in {"Point", "Vector"}

\* a call that was handed an object of another type has run, and the
\* Container holds something
C1_Witness ==
    /\ Len(container) > 0
    /\ \/ cres.op \in {"append", "insert"} /\ cres.out = "ValueError"
       \/ /\ cres.op = "extend"
          /\ \E i \in 1..Len(cres.elements) :
                cres.elements[i].type \notin {"Point", "Vector"}

\* C2: Container(e1, ..., en) holds exactly the subsequence of its arguments
\* that are Points or Vectors, in order and each once, and does not raise.
C2_ConstructKeepsConformingOnce ==
    cres.op = "init" =>
        /\ cres.out = "ok"
        /\ container = SelectSeq(cres.elements,
                                 LAMBDA e : e.type \in {"Point", "Vector"})

\* the position list.insert uses for an index, given the length n
InsertPos(index, n) ==
    IF index >= n THEN n
    ELSE IF index >= 0 THEN index
    ELSE IF index < 0 - n THEN 0
    ELSE n + index

\* C3: append/insert of an element that is neither Point nor Vector raises
\* ValueError and leaves the Container exactly as it was; for a conforming
\* element exactly that element is added (append: at the end; insert: at the
\* index, clamped to the ends) and nothing else changes.
C3_AppendInsertAllOrNothing ==
    [][ /\ (cres'.op \in {"append", "insert"}
            /\ cres'.element.type \notin {"Point", "Vector"})
           => (cres'.out = "ValueError" /\ container' = container)
        /\ (cres'.op = "append" /\ cres'.element.type \in {"Point", "Vector"})
           => /\ cres'.out = "ok"
              /\ container' = container \o <<cres'.element>>
        /\ (cres'.op = "insert" /\ cres'.element.type \in {"Point", "Vector"})
           => LET pos == InsertPos(cres'.index, Len(container))
              IN /\ cres'.out = "ok"
                 /\ container' = SubSeq(container, 1, pos)
                                   \o <<cres'.element>>
                                   \o SubSeq(container, pos + 1, Len(container))
      ]_vars

\* an insert of a non-conforming element into a non-empty Container raised
C3_Witness ==
    /\ cres.op = "insert"
    /\ cres.out = "ValueError"
    /\ Len(container) >= 2

\* C5: Container.from_json(c.to_json()) succeeds and equals c, element by
\* element and in order.
C5_ContainerJsonRoundTrip ==
    cres.op = "roundtrip" =>
        /\ cres.out = "ok"
        /\ ListEq(cres.loaded, container)

\* C4: for every Vector, after construction in either mode and any sequence
\* of successful assignments to x, y, z, start_point or end_point, the
\* coordinate triple is the endpoint delta end_point - start_point.
C4_CoordinatesAreEndpointDelta ==
    \A v \in Alive(vecs) :
        /\ vecs[v].x = pts[vecs[v].end_point].x - pts[vecs[v].start_point].x
        /\ vecs[v].y = pts[vecs[v].end_point].y - pts[vecs[v].start_point].y
        /\ vecs[v].z = pts[vecs[v].end_point].z - pts[vecs[v].start_point].z

\* C6: Vector.from_json(v.to_json()), on the text or on the mapping,
\* succeeds and returns a Vector with v's start_point and end_point and the
\* coordinates recomputed from them.
C6_VectorJsonRoundTrip ==
    vres.op = "from_json" =>
        /\ vres.out = "ok"
        /\ vres.loaded.start_point = pts[vecs[vres.v].start_point]
        /\ vres.loaded.end_point = pts[vecs[vres.v].end_point]
        /\ vres.loaded.x = vres.loaded.end_point.x - vres.loaded.start_point.x
        /\ vres.loaded.y = vres.loaded.end_point.y - vres.loaded.start_point.y
        /\ vres.loaded.z = vres.loaded.end_point.z - vres.loaded.start_point.z

\* the whole of s is (<num>;<num>;<num>)
WholeTextIsPoint(s) ==
    /\ Len(s) >= 7
    /\ s[1] = "(" /\ s[Len(s)] = ")"
    /\ \E a \in 2..Len(s), b \in 2..Len(s) :
          /\ NumMatch(s, 2, a - 1) /\ s[a] = ";"
          /\ NumMatch(s, a + 1, b - 1) /\ s[b] = ";"
          /\ NumMatch(s, b + 1, Len(s) - 1)

\* C7: Point.from_str(text) returns a Point only when the whole text matches
\* (<num>;<num>;<num>); on every other text it raises ValueError and
\* produces no Point.
C7_ParseOnlyWholeMatch ==
    pres.op = "from_str" =>
        /\ pres.out = "ok" => WholeTextIsPoint(ptext)
        /\ ~WholeTextIsPoint(ptext) =>
              (pres.out = "ValueError" /\ pres.point = None)

\* C8: Vector(...) with end_point omitted and x, y, z all given has those
\* coordinates, the given start (the origin (0,0,0) if none is given) and
\* end_point = start_point + (x,y,z); with end_point omitted and one of
\* x, y, z missing it raises ValueError and makes no Vector; with end_point
\* given its coordinates are end_point - start_point, whatever x, y, z.
C8_VectorConstruct ==
    [][ vres'.op = "init" =>
          LET a == vres'
              start == IF a.given THEN pts[a.start_point.id]
                       ELSE PointVal(0, 0, 0)
              made == vecs'[a.v]
          IN IF a.end_point.type = "NoneType"
             THEN IF a.x.type # "NoneType" /\ a.y.type # "NoneType"
                       /\ a.z.type # "NoneType"
                  THEN /\ a.out = "ok"
                       /\ made.x = a.x.ival /\ made.y = a.y.ival
                       /\ made.z = a.z.ival
                       /\ pts'[made.start_point] = start
                       /\ pts'[made.end_point] =
                             PointVal(start.x + a.x.ival, start.y + a.y.ival,
                                      start.z + a.z.ival)
                  ELSE /\ a.out = "ValueError"
                       /\ vecs' = vecs /\ pts' = pts
             ELSE /\ a.out = "ok"
                  /\ pts'[made.start_point] = start
                  /\ pts'[made.end_point] = pts[a.end_point.id]
                  /\ made.x = pts[a.end_point.id].x - start.x
                  /\ made.y = pts[a.end_point.id].y - start.y
                  /\ made.z = pts[a.end_point.id].z - start.z
      ]_vars

\* C9: a - b for Vectors a and b returns a new Vector whose coordinates are
\* the coordinate-wise difference, anchored at a's start_point, a and b
\* unchanged; for b not a Vector it raises ValueError.
C9_Subtract ==
    [][ vres'.op = "sub" =>
          IF vres'.other.type = "Vector"
          THEN LET a == vecs[vres'.self]
                   b == vecs[vres'.other.id]
                   made == vecs'[vres'.v]
               IN /\ vres'.out = "ok"
                  /\ vres'.v \notin Alive(vecs)
                  /\ made.x = a.x - b.x /\ made.y = a.y - b.y
                  /\ made.z = a.z - b.z
                  /\ made.start_point = a.start_point
                  /\ \A w \in Alive(vecs) : vecs'[w] = vecs[w]
                  /\ \A p \in Alive(pts) : pts'[p] = pts[p]
          ELSE vres'.out = "ValueError" /\ vecs' = vecs /\ pts' = pts
      ]_vars

\* C10: for Vectors first and second, second without a zero coordinate,
\* Vector.collinear(first, second) returns true exactly when
\* first.x/second.x = first.y/second.y = first.z/second.z, false otherwise;
\* if either argument is not a Vector it raises ValueError.
C10_Collinear ==
    vres.op = "collinear" =>
        IF vres.first.type = "Vector" /\ vres.second.type = "Vector"
        THEN LET a == vecs[vres.first.id]
                 b == vecs[vres.second.id]
             IN (b.x # 0 /\ b.y # 0 /\ b.z # 0) =>
                   /\ vres.out = "ok"
                   /\ vres.result = (a.x * b.y = a.y * b.x /\ a.y * b.z = a.z * b.y)
        ELSE vres.out = "ValueError"

\* C11: each Vector owns its start_point and end_point: for two distinct
\* Vectors made by Vector(...), a * number or a + b, writing a coordinate of
\* one Vector's start_point or end_point leaves the other's start_point and
\* end_point, and so what it compares equal to, unchanged.
C11_ExclusiveOwnership ==
    [][ (vres'.op = "point_setattr" /\ vres'.out = "ok") =>
          \A v \in Alive(vecs), w \in Alive(vecs) :
              (v # w /\ vres'.p \in {vecs[v].start_point, vecs[v].end_point})
              => /\ pts'[vecs'[w].start_point] = pts[vecs[w].start_point]
                 /\ pts'[vecs'[w].end_point] = pts[vecs[w].end_point]
                 /\ Vector_eq(Deref(pts', vecs', w), Deref(pts, vecs, w))
      ]_vars

\* the choices the menu accepts
Choices == {<<"1">>, <<"2">>, <<"3">>, <<"4">>, <<"5">>, <<"6">>}

====
